---- MODULE Spec2Model ----
(***************************************************************************)
(* Model of pkg/plugins/utilities.go: the plugin manifest (plugins.toml),  *)
(* the installed_plugins config field, the plugins directory, and the      *)
(* operations GetPluginList / LookUpPlugin / RefreshPluginManifest,         *)
(* AddEntryToPluginManifest and extractFromTarball.                         *)
(***************************************************************************)
EXTENDS Integers, Sequences, FiniteSets, TLC

\* ---------------------------------------------------------------- bounds
MaxRuns == 2        \* operations started in one behaviour
MaxEntries == 2     \* entries in one archive

\* ------------------------------------------------------------ data model
Procs == {1, 2}
Names == {"a", "b"}
Absent == << <<"absent">> >>    \* os.IsNotExist: the file is not there

R11 == [Version |-> "v1", Sum |-> "s1"]
R22 == [Version |-> "v2", Sum |-> "s2"]

\* the digest of a binary payload; payloads are 0 (no bytes), 1, 2
Payloads == {0, 1, 2}
Checksum(d) == CASE d = 0 -> "s0" [] d = 1 -> "s1" [] d = 2 -> "s2"

Plugin(n, rs) == [Shortname |-> n, Releases |-> rs]
ZeroPlugin == Plugin("", <<>>)

\* ------------------------------------------------- TOML encode / decode
\* A plugins.toml document is a sequence of lines: a [[Plugin]] table
\* header with its Shortname, a [[Plugin.Release]] table with its fields,
\* or a line that is not TOML.
PRow(n) == <<"P", n>>
RRow(r) == <<"R", r.Version, r.Sum>>
XRow == <<"X">>

RECURSIVE EncodeReleases(_)
EncodeReleases(rs) ==
    IF rs = <<>> THEN <<>> ELSE <<RRow(Head(rs))>> \o EncodeReleases(Tail(rs))

RECURSIVE Encode(_)
Encode(ps) ==
    IF ps = <<>> THEN <<>>
    ELSE <<PRow(Head(ps).Shortname)>> \o EncodeReleases(Head(ps).Releases)
            \o Encode(Tail(ps))

DecodeRow(acc, row) ==
    IF ~acc.ok THEN acc
    ELSE IF row[1] = "P" THEN
        [ok |-> TRUE, Plugins |-> Append(acc.Plugins, Plugin(row[2], <<>>))]
    ELSE IF row[1] = "R" /\ acc.Plugins # <<>> THEN
        LET k == Len(acc.Plugins)
            r == [Version |-> row[2], Sum |-> row[3]]
        IN [ok |-> TRUE,
            Plugins |-> [acc.Plugins EXCEPT ![k].Releases = Append(@, r)]]
    ELSE [ok |-> FALSE, Plugins |-> <<>>]

RECURSIVE DecodeFrom(_, _)
DecodeFrom(acc, rows) ==
    IF rows = <<>> THEN acc ELSE DecodeFrom(DecodeRow(acc, Head(rows)), Tail(rows))

Decode(rows) == DecodeFrom([ok |-> TRUE, Plugins |-> <<>>], rows)

\* a write that fails after the file was opened with O_TRUNC leaves a
\* proper prefix of the bytes
Truncations(rows) == {SubSeq(rows, 1, k) : k \in 0..(Len(rows) - 1)}
\* ioutil.ReadAll that fails returns the bytes read so far
ReadPrefixes(rows) == {SubSeq(rows, 1, k) : k \in 0..Len(rows)}

\* toml.Unmarshal into a value that already holds data: a key that is absent
\* leaves its field alone, an array of tables reuses the slice when its
\* capacity suffices. A slice is its backing array and its length.
ZeroSlice == [arr |-> <<>>, len |-> 0]
SliceOf(m) == SubSeq(m.arr, 1, m.len)
UnifyPlugin(old, new) ==
    [Shortname |-> new.Shortname,
     Releases |-> IF new.Releases = <<>> THEN old.Releases ELSE new.Releases]
Unmarshal(m, doc) ==
    IF doc = <<>> THEN m
    ELSE LET n == Len(doc)
             base == IF Len(m.arr) < n THEN [i \in 1..n |-> ZeroPlugin] ELSE m.arr
         IN [arr |-> [i \in 1..Len(base) |->
                        IF i <= n THEN UnifyPlugin(base[i], doc[i]) ELSE base[i]],
             len |-> n]

\* ------------------------------------------ AddEntryToPluginManifest, pure
\* the loop of lines 148-156: index of the first plugin with that name, or 0
RECURSIVE FindFrom(_, _, _)
FindFrom(ps, name, i) ==
    IF i > Len(ps) THEN 0
    ELSE IF ps[i].Shortname = name THEN i
    ELSE FindFrom(ps, name, i + 1)
FindPlugin(ps, name) == FindFrom(ps, name, 1)

\* MergeEntry gone wrong: the new plugin is put first
MergeEntry_Prepend(ps, entry) ==
    LET i == FindPlugin(ps, entry.Shortname) IN
    IF i # 0 THEN
        IF entry.Releases = <<>> THEN [panic |-> TRUE, Plugins |-> ps]
        ELSE [panic |-> FALSE,
              Plugins |-> [ps EXCEPT ![i].Releases = Append(@, entry.Releases[1])]]
    ELSE [panic |-> FALSE, Plugins |-> <<entry>> \o ps]

\* MergeEntry gone wrong: a release already listed is not appended again
MergeEntry_Dedup(ps, entry) ==
    LET i == FindPlugin(ps, entry.Shortname) IN
    IF i # 0 THEN
        IF entry.Releases = <<>> THEN [panic |-> TRUE, Plugins |-> ps]
        ELSE IF \E j \in 1..Len(ps[i].Releases) : ps[i].Releases[j] = entry.Releases[1]
             THEN [panic |-> FALSE, Plugins |-> ps]
        ELSE [panic |-> FALSE,
              Plugins |-> [ps EXCEPT ![i].Releases = Append(@, entry.Releases[1])]]
    ELSE [panic |-> FALSE, Plugins |-> Append(ps, entry)]

\* MergeEntry gone wrong: the name is not looked for
MergeEntry_AlwaysAppend(ps, entry) ==
    [panic |-> FALSE, Plugins |-> Append(ps, entry)]

\* lines 147-161; entry.Releases[0] of an entry without releases panics
MergeEntry(ps, entry) ==
    LET i == FindPlugin(ps, entry.Shortname) IN
    IF i # 0 THEN
        IF entry.Releases = <<>> THEN [panic |-> TRUE, Plugins |-> ps]
        ELSE [panic |-> FALSE,
              Plugins |-> [ps EXCEPT ![i].Releases = Append(@, entry.Releases[1])]]
    ELSE [panic |-> FALSE, Plugins |-> Append(ps, entry)]

\* lines 177-187
RECURSIVE IsInstalled(_, _)
IsInstalled(list, name) ==
    IF list = <<>> THEN FALSE
    ELSE (Head(list) = name) \/ IsInstalled(Tail(list), name)
AddInstalled(list, name) ==
    IF IsInstalled(list, name) THEN list ELSE Append(list, name)

\* ----------------------------------------------------------- archives
DirEntry == [Typeflag |-> "dir", Name |-> "d/", Toml |-> <<>>, Data |-> 0]
LinkEntry == [Typeflag |-> "symlink", Name |-> "link", Toml |-> <<>>, Data |-> 0]
DeviceEntry == [Typeflag |-> "chardev", Name |-> "tty", Toml |-> <<>>, Data |-> 0]
OtherEntry == [Typeflag |-> "reg", Name |-> "README", Toml |-> <<>>, Data |-> 0]
BinEntry(d) == [Typeflag |-> "reg", Name |-> "stripe-cli-x", Toml |-> <<>>, Data |-> d]
ManEntry(rows) == [Typeflag |-> "reg", Name |-> "manifest.toml", Toml |-> rows, Data |-> 0]

FragmentFiles ==
    { <<XRow>>,
      <<>>,
      <<PRow("a")>>,
      <<PRow("a"), RRow(R11)>>,
      <<PRow("b"), RRow(R22)>>,
      <<PRow("a"), RRow(R11), RRow(R22)>>,
      <<PRow("a"), PRow("b")>> }

RegularEntries ==
    {OtherEntry}
        \cup {BinEntry(d) : d \in Payloads}
        \cup {ManEntry(rows) : rows \in FragmentFiles}
UnsupportedEntries == {LinkEntry, DeviceEntry}
\* where the first unsupported entry of an archive is (0: it has none)
FirstUnsupported == 0..MaxEntries

IsManifestName(name) == name = "manifest.toml"
IsBinaryName(name) == name = "stripe-cli-x"     \* strings.Contains(name, "stripe-cli-")

\* entries handed to AddEntryToPluginManifest by a direct caller
Entries == {Plugin(n, rs) : n \in Names, rs \in {<<>>, <<R11>>, <<R22>>, <<R11, R22>>}}

\* response bodies the remote origin may serve for plugins.toml
Bodies ==
    { <<>>,
      <<XRow>>,
      <<PRow("a"), RRow(R11)>>,
      <<PRow("a"), RRow(R11), PRow("a"), RRow(R22)>> }

\* plugins.toml when the CLI starts
InitCatalogs == {Absent, <<>>, <<PRow("b"), RRow(R11)>>}

\* ---------------------------------------------------------------- state
VARIABLES
    catalog,        \* contents of plugins.toml, or Absent
    index,          \* the installed_plugins field of the config file
    pluginsDir,     \* plugins directory: name -> payload written (0: none)
    pc,             \* where each CLI process is
    op,             \* the operation the process runs
    result,         \* the error it returned
    bad,            \* the first unsupported entry of the tar stream
    pos,            \* number of the entry tarReader.Next returns next
    manifest,       \* var manifest PluginList
    pluginData,     \* var pluginData []byte
    trErr,          \* a read of the tar stream failed
    nfrag,          \* manifest.toml entries decoded by this scan
    entry,          \* argument of AddEntryToPluginManifest
    loaded,         \* currentPluginList as decoded from plugins.toml
    current,        \* currentPluginList after lines 147-161
    installedList,  \* installedList after lines 175-187
    delta,          \* lines this call added to plugins.toml / names to the index
    start,          \* catalog, index and plugins directory when the run began
    load,           \* what the last GetPluginList did and returned
    runs,           \* operations started so far
    overlap,        \* a process started while another one was running
    catalog0        \* plugins.toml when the CLI started

globals == <<catalog, index, pluginsDir>>
scanvars == <<bad, pos, manifest, pluginData, trErr, nfrag>>
addvars == <<entry, loaded, current, installedList, delta>>
ghosts == <<runs, overlap, catalog0>>
vars == <<catalog, index, pluginsDir, pc, op, result, bad, pos, manifest,
          pluginData, trErr, nfrag, entry, loaded, current, installedList,
          delta, start, load, runs, overlap, catalog0>>

NoLoad == [absent |-> FALSE, fetches |-> 0, reads |-> 0, fetchErr |-> "",
           body |-> <<>>, err |-> "", list |-> <<>>, found |-> FALSE,
           plugin |-> ZeroPlugin]
NoStart == [catalog |-> <<>>, index |-> <<>>, dir |-> [n \in Names |-> 0]]
NoDelta == [cat |-> 0, idx |-> 0]

Init ==
    /\ catalog \in InitCatalogs
    /\ catalog0 = catalog
    /\ index = <<>>
    /\ pluginsDir = [n \in Names |-> 0]
    /\ pc = [p \in Procs |-> "idle"]
    /\ op = [p \in Procs |-> ""]
    /\ result = [p \in Procs |-> <<>>]
    /\ bad = [p \in Procs |-> 0]
    /\ pos = [p \in Procs |-> 1]
    /\ manifest = [p \in Procs |-> ZeroSlice]
    /\ pluginData = [p \in Procs |-> 0]
    /\ trErr = [p \in Procs |-> FALSE]
    /\ nfrag = [p \in Procs |-> 0]
    /\ entry = [p \in Procs |-> ZeroPlugin]
    /\ loaded = [p \in Procs |-> <<>>]
    /\ current = [p \in Procs |-> <<>>]
    /\ installedList = [p \in Procs |-> <<>>]
    /\ delta = [p \in Procs |-> NoDelta]
    /\ start = [p \in Procs |-> NoStart]
    /\ load = NoLoad
    /\ runs = 0
    /\ overlap = FALSE

Running(q) == pc[q] \notin {"idle", "done"}
Quiet == \A q \in Procs : pc[q] = "idle"
Snapshot == [catalog |-> catalog, index |-> index, dir |-> pluginsDir]

\* the function returns err: the kind of error ("ok": nil) and its arguments
Err(p) == IF result[p] = <<>> THEN "" ELSE result[p][1]
Return(p, err) ==
    /\ pc' = [pc EXCEPT ![p] = "done"]
    /\ result' = [result EXCEPT ![p] = err]

\* ------------------------------------------------------ extractFromTarball
\* The archive is read as a stream: what is known of it when the run starts is
\* where its first entry of an unsupported type is (bad, 0: it has none); the
\* entries are met as the scan goes.
StartExtract(p, b) ==
    /\ pc[p] = "idle" /\ Quiet /\ runs < MaxRuns
    /\ pc' = [pc EXCEPT ![p] = "scan"]
    /\ op' = [op EXCEPT ![p] = "extract"]
    /\ bad' = [bad EXCEPT ![p] = b]
    /\ start' = [start EXCEPT ![p] = Snapshot]
    /\ runs' = runs + 1
    /\ UNCHANGED <<globals, result, pos, manifest, pluginData, trErr, nfrag,
                   addvars, load, overlap, catalog0>>

\* tarReader.Next returns a header
AtEntry(p) == pc[p] = "scan" /\ pos[p] <= MaxEntries
Supported(p) == pos[p] # bad[p]

\* lines 302-307: tarReader.Next fails
ScanNextError(p) ==
    /\ pc[p] = "scan"
    /\ Return(p, <<"ReadError">>)
    /\ UNCHANGED <<globals, op, scanvars, addvars, start, load, ghosts>>

\* lines 312-313
ScanDir(p) ==
    /\ AtEntry(p) /\ Supported(p)
    /\ pos' = [pos EXCEPT ![p] = @ + 1]
    /\ UNCHANGED <<globals, pc, op, result, bad, manifest, pluginData, trErr,
                   nfrag, addvars, start, load, ghosts>>

\* lines 315-322. The error of ioutil.ReadAll is dropped, but tar.Reader
\* keeps the error of a failed read and the next tarReader.Next returns it
\* (lines 302-307): the bytes read so far are decoded, then the run ends.
ScanManifest(p, header) ==
    /\ AtEntry(p) /\ Supported(p)
    /\ header.Typeflag = "reg" /\ IsManifestName(header.Name)
    /\ \E readOk \in BOOLEAN :
        \E tomlBytes \in (IF readOk THEN {header.Toml} ELSE ReadPrefixes(header.Toml)) :
            LET d == Decode(tomlBytes) IN
            /\ trErr' = [trErr EXCEPT ![p] = ~readOk]
            /\ IF ~d.ok THEN
                    /\ Return(p, <<"ParseError">>)
                    /\ UNCHANGED <<pos, manifest, nfrag>>
               ELSE
                    /\ manifest' = [manifest EXCEPT ![p] = Unmarshal(@, d.Plugins)]
                    /\ nfrag' = [nfrag EXCEPT ![p] = @ + 1]
                    /\ pos' = [pos EXCEPT ![p] = @ + 1]
                    /\ IF readOk THEN UNCHANGED <<pc, result>>
                       ELSE Return(p, <<"ReadError">>)
    /\ UNCHANGED <<globals, op, bad, pluginData, addvars, start, load, ghosts>>

\* lines 323-326, a failed read as in ScanManifest
ScanBinary(p, header) ==
    /\ AtEntry(p) /\ Supported(p)
    /\ header.Typeflag = "reg"
    /\ ~IsManifestName(header.Name) /\ IsBinaryName(header.Name)
    /\ \E readOk \in BOOLEAN :
        \E bytes \in (IF readOk THEN {header.Data} ELSE 0..header.Data) :
            /\ pluginData' = [pluginData EXCEPT ![p] = bytes]
            /\ trErr' = [trErr EXCEPT ![p] = ~readOk]
            /\ IF readOk THEN UNCHANGED <<pc, result>>
               ELSE Return(p, <<"ReadError">>)
    /\ pos' = [pos EXCEPT ![p] = @ + 1]
    /\ UNCHANGED <<globals, op, bad, manifest, nfrag, addvars, start, load, ghosts>>

\* lines 314-326: a regular file with any other name is passed over
ScanOther(p, header) ==
    /\ AtEntry(p) /\ Supported(p)
    /\ header.Typeflag = "reg"
    /\ ~IsManifestName(header.Name) /\ ~IsBinaryName(header.Name)
    /\ pos' = [pos EXCEPT ![p] = @ + 1]
    /\ UNCHANGED <<globals, pc, op, result, bad, manifest, pluginData, trErr,
                   nfrag, addvars, start, load, ghosts>>

\* ScanUnsupported gone wrong: the entry is passed over like a directory
ScanUnsupported_Skip(p) ==
    /\ AtEntry(p) /\ ~Supported(p)
    /\ pos' = [pos EXCEPT ![p] = @ + 1]
    /\ UNCHANGED <<globals, pc, op, result, bad, manifest, pluginData, trErr,
                   nfrag, addvars, start, load, ghosts>>

\* lines 328-329
UnsupportedError(header) == <<"UnsupportedEntryType", header.Name, header.Typeflag>>
ScanUnsupported(p) ==
    /\ AtEntry(p) /\ ~Supported(p)
    /\ \E header \in UnsupportedEntries : Return(p, UnsupportedError(header))
    /\ UNCHANGED <<globals, op, scanvars, addvars, start, load, ghosts>>

\* lines 303-304 and 333-348: io.EOF ends the scan (the stream is at least as
\* long as to hold its first unsupported entry); hand off or reject
HandsOff(m, data) == Len(SliceOf(m)) = 1 /\ data > 0
ScanEOF(p) ==
    /\ pc[p] = "scan" /\ pos[p] > bad[p]
    /\ IF HandsOff(manifest[p], pluginData[p]) THEN
            /\ entry' = [entry EXCEPT ![p] = SliceOf(manifest[p])[1]]
            /\ pc' = [pc EXCEPT ![p] = "add_load"]
            /\ UNCHANGED result
       ELSE
            /\ Return(p, <<"MalformedArchive">>)
            /\ UNCHANGED entry
    /\ UNCHANGED <<globals, op, scanvars, loaded, current, installedList, delta,
                   start, load, ghosts>>

\* ------------------------------------------------ AddEntryToPluginManifest
\* LoadCurrent gone wrong: the stored file is never read
LoadCurrent_Empty(cat) == [ok |-> TRUE, Plugins |-> <<>>]

\* lines 140-145: a missing plugins.toml is the empty list
LoadCurrent(cat) ==
    IF cat = Absent THEN [ok |-> TRUE, Plugins |-> <<>>] ELSE Decode(cat)

\* a direct call, by one process at a time
StartReconcile(p, e) ==
    /\ pc[p] = "idle" /\ Quiet /\ runs < MaxRuns
    /\ pc' = [pc EXCEPT ![p] = "add_load"]
    /\ op' = [op EXCEPT ![p] = "reconcile"]
    /\ entry' = [entry EXCEPT ![p] = e]
    /\ start' = [start EXCEPT ![p] = Snapshot]
    /\ runs' = runs + 1
    /\ UNCHANGED <<globals, result, scanvars, loaded, current, installedList,
                   delta, load, overlap, catalog0>>

\* a direct call by a CLI process of its own, whatever the others are doing
StartConcurrent(p, e) ==
    /\ pc[p] = "idle"
    /\ pc' = [pc EXCEPT ![p] = "add_load"]
    /\ op' = [op EXCEPT ![p] = "reconcile"]
    /\ entry' = [entry EXCEPT ![p] = e]
    /\ start' = [start EXCEPT ![p] = Snapshot]
    /\ overlap' = (overlap \/ \E q \in Procs \ {p} : Running(q))
    /\ UNCHANGED <<globals, result, scanvars, loaded, current, installedList,
                   delta, load, runs, catalog0>>

\* lines 140-161: read and decode plugins.toml, merge the entry
AddLoad(p) ==
    /\ pc[p] = "add_load"
    /\ LET d == LoadCurrent(catalog) IN
       IF ~d.ok THEN
            /\ Return(p, <<"ParseError">>)
            /\ UNCHANGED <<loaded, current>>
       ELSE LET m == MergeEntry(d.Plugins, entry[p]) IN
            IF m.panic THEN
                /\ Return(p, <<"panic">>)
                /\ UNCHANGED <<loaded, current>>
            ELSE
                /\ loaded' = [loaded EXCEPT ![p] = d.Plugins]
                /\ current' = [current EXCEPT ![p] = m.Plugins]
                /\ pc' = [pc EXCEPT ![p] = "add_write"]
                /\ UNCHANGED result
    /\ UNCHANGED <<globals, op, scanvars, entry, installedList, delta, start,
                   load, ghosts>>

\* lines 163-172: encode and os.WriteFile; a failed write may have truncated
AddWrite(p) ==
    /\ pc[p] = "add_write"
    /\ LET buf == Encode(current[p]) IN
       \/ /\ catalog' = buf
          /\ delta' = [delta EXCEPT ![p].cat = Len(buf) - Len(Encode(loaded[p]))]
          /\ pc' = [pc EXCEPT ![p] = "add_index"]
          /\ UNCHANGED result
       \/ /\ catalog' \in {catalog} \cup Truncations(buf)
          /\ Return(p, <<"IOError">>)
          /\ UNCHANGED delta
    /\ UNCHANGED <<index, pluginsDir, op, scanvars, entry, loaded, current,
                   installedList, start, load, ghosts>>

\* lines 174-187: config.InitConfig, GetInstalledPlugins, add the name
AddReadIndex(p) ==
    /\ pc[p] = "add_index"
    /\ installedList' = [installedList EXCEPT ![p] = AddInstalled(index, entry[p].Shortname)]
    /\ delta' = [delta EXCEPT ![p].idx = Len(installedList'[p]) - Len(index)]
    /\ pc' = [pc EXCEPT ![p] = "add_persist"]
    /\ UNCHANGED <<globals, op, result, scanvars, entry, loaded, current,
                   start, load, ghosts>>

\* lines 189-192: WriteConfigField, its outcome not looked at; return nil
AddPersist(p) ==
    /\ pc[p] = "add_persist"
    /\ \E persisted \in BOOLEAN :
        /\ index' = IF persisted THEN installedList[p] ELSE index
        /\ delta' = [delta EXCEPT ![p].idx = IF persisted THEN @ ELSE 0]
    /\ IF op[p] = "extract"
       THEN pc' = [pc EXCEPT ![p] = "install"] /\ UNCHANGED result
       ELSE Return(p, <<"ok">>)
    /\ UNCHANGED <<catalog, pluginsDir, op, scanvars, entry, loaded, current,
                   installedList, start, load, ghosts>>

\* ------------------------------------------------------------- install
\* verifychecksumAndSavePlugin: the digest is compared before anything is
\* written
VerifyChecksum(data, release) == Checksum(data) = release.Sum

\* lines 341-345, plugin.Releases[0] of a plugin without releases panics
Install(p) ==
    /\ pc[p] = "install"
    /\ IF entry[p].Releases = <<>> THEN
            Return(p, <<"panic">>) /\ UNCHANGED pluginsDir
       ELSE IF ~VerifyChecksum(pluginData[p], entry[p].Releases[1]) THEN
            Return(p, <<"IntegrityError">>) /\ UNCHANGED pluginsDir
       ELSE
            \/ /\ pluginsDir' = [pluginsDir EXCEPT ![entry[p].Shortname] = pluginData[p]]
               /\ Return(p, <<"ok">>)
            \/ Return(p, <<"IOError">>) /\ UNCHANGED pluginsDir
    /\ UNCHANGED <<catalog, index, op, scanvars, addvars, start, load, ghosts>>

\* ------------------------------------------- GetPluginList, LookUpPlugin
\* lines 80-85
Decoded(l, rows) ==
    LET d == Decode(rows) IN
    IF d.ok THEN [l EXCEPT !.list = d.Plugins] ELSE [l EXCEPT !.err = "ParseError"]

\* lines 106-133: the ways RefreshPluginManifest can end, as the error it
\* returns, the body it fetched and the plugins.toml it leaves
RefreshOutcomes ==
    {[err |-> e, body |-> <<>>, file |-> Absent] : e \in {"AuthError", "NetworkError"}}
    \cup {[err |-> "", body |-> b, file |-> b] : b \in Bodies}
    \cup UNION {{[err |-> "IOError", body |-> b, file |-> f] :
                     f \in {Absent} \cup Truncations(b)} : b \in Bodies}

\* GetPluginList gone wrong: it refreshes whether or not the file is there
GetPluginList_AlwaysRefresh(cat) ==
    LET first == [NoLoad EXCEPT !.absent = (cat = Absent), !.reads = 1, !.fetches = 1] IN
    {[file |-> IF r.err = "" THEN r.file ELSE cat,
      did |-> IF r.err # ""
              THEN [first EXCEPT !.fetchErr = r.err, !.err = r.err, !.body = r.body]
              ELSE Decoded([first EXCEPT !.body = r.body, !.reads = 2], r.file)] :
        r \in RefreshOutcomes}

\* lines 60-86: every way one call can go from plugins.toml being cat, as the
\* file it leaves and the record of what it did
GetPluginList(cat) ==
    IF cat # Absent THEN
        {[file |-> cat, did |-> [NoLoad EXCEPT !.reads = 1, !.err = "ReadError"]],
         [file |-> cat, did |-> Decoded([NoLoad EXCEPT !.reads = 1], cat)]}
    ELSE
        LET first == [NoLoad EXCEPT !.absent = TRUE, !.reads = 1, !.fetches = 1] IN
        {[file |-> r.file,
          did |-> [first EXCEPT !.fetchErr = r.err, !.err = r.err, !.body = r.body]] :
            r \in {r \in RefreshOutcomes : r.err # ""}}
        \cup
        {[file |-> r.file,
          did |-> Decoded([first EXCEPT !.body = r.body, !.reads = 2], r.file)] :
            r \in {r \in RefreshOutcomes : r.err = ""}}
        \cup
        {[file |-> r.file,
          did |-> [first EXCEPT !.body = r.body, !.reads = 2, !.err = "ReadError"]] :
            r \in {r \in RefreshOutcomes : r.err = ""}}

\* lines 96-102
LookUp(l, name) ==
    LET i == FindPlugin(l.list, name) IN
    IF l.err # "" THEN l
    ELSE IF i # 0 THEN [l EXCEPT !.found = TRUE, !.plugin = l.list[i]]
    ELSE l

\* lines 89-103
LookUpPlugin(p, name) ==
    /\ pc[p] = "idle" /\ Quiet /\ runs < MaxRuns
    /\ \E o \in GetPluginList(catalog) :
        /\ catalog' = o.file
        /\ load' = LookUp(o.did, name)
        /\ Return(p, IF load'.err # "" THEN <<load'.err>>
                      ELSE IF load'.found THEN <<"ok">> ELSE <<"NotFound">>)
    /\ op' = [op EXCEPT ![p] = "lookup"]
    /\ start' = [start EXCEPT ![p] = Snapshot]
    /\ runs' = runs + 1
    /\ UNCHANGED <<index, pluginsDir, scanvars, addvars, overlap, catalog0>>

\* the CLI process ends; its locals are gone
Exit(p) ==
    /\ pc[p] = "done"
    /\ pc' = [pc EXCEPT ![p] = "idle"]
    /\ op' = [op EXCEPT ![p] = ""]
    /\ result' = [result EXCEPT ![p] = <<>>]
    /\ bad' = [bad EXCEPT ![p] = 0]
    /\ pos' = [pos EXCEPT ![p] = 1]
    /\ manifest' = [manifest EXCEPT ![p] = ZeroSlice]
    /\ pluginData' = [pluginData EXCEPT ![p] = 0]
    /\ trErr' = [trErr EXCEPT ![p] = FALSE]
    /\ nfrag' = [nfrag EXCEPT ![p] = 0]
    /\ entry' = [entry EXCEPT ![p] = ZeroPlugin]
    /\ loaded' = [loaded EXCEPT ![p] = <<>>]
    /\ current' = [current EXCEPT ![p] = <<>>]
    /\ installedList' = [installedList EXCEPT ![p] = <<>>]
    /\ delta' = [delta EXCEPT ![p] = NoDelta]
    /\ start' = [start EXCEPT ![p] = NoStart]
    /\ load' = NoLoad
    /\ UNCHANGED <<globals, ghosts>>

\* ------------------------------------------------------ specifications
Scan(p) ==
    \/ ScanNextError(p)
    \/ ScanDir(p)
    \/ \E header \in RegularEntries : ScanManifest(p, header)
    \/ \E header \in RegularEntries : ScanBinary(p, header)
    \/ \E header \in RegularEntries : ScanOther(p, header)
    \/ ScanUnsupported(p)
    \/ ScanEOF(p)

AddEntry(p) ==
    \/ AddLoad(p)
    \/ AddWrite(p)
    \/ AddReadIndex(p)
    \/ AddPersist(p)

\* one CLI process at a time: extract, reconcile and lookup runs in sequence
Next ==
    \/ \E b \in FirstUnsupported : StartExtract(1, b)
    \/ \E e \in Entries : StartReconcile(1, e)
    \/ \E n \in Names : LookUpPlugin(1, n)
    \/ Scan(1)
    \/ AddEntry(1)
    \/ Install(1)
    \/ Exit(1)

Spec == Init /\ [][Next]_vars

\* direct calls of AddEntryToPluginManifest only: plugins.toml is written by
\* nothing else
NextReconcile ==
    \/ \E e \in Entries : StartReconcile(1, e)
    \/ AddEntry(1)
    \/ Exit(1)

SpecReconcile == Init /\ [][NextReconcile]_vars

\* extract runs only
NextExtract ==
    \/ \E b \in FirstUnsupported : StartExtract(1, b)
    \/ Scan(1)
    \/ AddEntry(1)
    \/ Install(1)
    \/ Exit(1)

SpecExtract == Init /\ [][NextExtract]_vars

\* lookups, between direct calls of AddEntryToPluginManifest
NextLookup ==
    \/ \E e \in Entries : StartReconcile(1, e)
    \/ \E n \in Names : LookUpPlugin(1, n)
    \/ AddEntry(1)
    \/ Exit(1)

SpecLookup == Init /\ [][NextLookup]_vars

\* two CLI processes, each reconciling one entry, steps interleaved freely
NextConcurrent ==
    \E p \in Procs :
        \/ \E e \in Entries : StartConcurrent(p, e)
        \/ AddEntry(p)

SpecConcurrent == Init /\ [][NextConcurrent]_vars

\* ------------------------------------------------------------ properties
Done(p) == pc[p] = "done"
Unchanged(p) ==
    /\ catalog = start[p].catalog
    /\ index = start[p].index
    /\ pluginsDir = start[p].dir
InIndex(name) == \E i \in 1..Len(index) : index[i] = name
\* plugins.toml holds the whole list the call in p built
Recorded(p) == current[p] # <<>> /\ catalog = Encode(current[p])
\* plugins.toml has just been written by the call in p
Written(p) == pc[p] = "add_index"
Stored == Decode(catalog)
NameIn(ps, name) == \E i \in 1..Len(ps) : ps[i].Shortname = name

\* C1: a failed install step leaves nothing behind: an extract run that ends
\* with the integrity error of verifychecksumAndSavePlugin has neither
\* recorded the release in plugins.toml nor added the name to the installed
\* index (the release is recorded only if the binary was verified and written).
C1_FailedInstallRecordsNothing ==
    \A p \in Procs :
        (Done(p) /\ op[p] = "extract" /\ Err(p) = "IntegrityError") =>
            /\ ~Recorded(p)
            /\ index = start[p].index

\* C2: when no stored extension has the entry's name, the catalog written
\* back is the stored one with one extension appended last, named like the
\* entry and holding exactly the entry's one release.
C2_AppendsNewExtension ==
    \A p \in Procs :
        (Written(p) /\ ~NameIn(loaded[p], entry[p].Shortname)
                    /\ Len(entry[p].Releases) = 1) =>
            LET C == loaded[p]
                W == Stored.Plugins
            IN  /\ Stored.ok
                /\ Len(W) = Len(C) + 1
                /\ W[Len(W)].Shortname = entry[p].Shortname
                /\ W[Len(W)].Releases = <<entry[p].Releases[1]>>
                /\ \A i \in 1..Len(C) : W[i] = C[i]

C2_Witness ==
    \E p \in Procs :
        /\ Written(p) /\ ~NameIn(loaded[p], entry[p].Shortname)
        /\ Len(entry[p].Releases) = 1
        /\ Len(loaded[p]) >= 1

\* C3: when a stored extension has the entry's name, the catalog written
\* back has the same extensions in the same order, the first one of that
\* name with the entry's release appended to its releases, all others as
\* they were.
FirstNamed(ps, name) ==
    CHOOSE i \in 1..Len(ps) :
        /\ ps[i].Shortname = name
        /\ \A j \in 1..(i - 1) : ps[j].Shortname # name
C3_AppendsRelease ==
    \A p \in Procs :
        (Written(p) /\ NameIn(loaded[p], entry[p].Shortname)) =>
            LET C == loaded[p]
                W == Stored.Plugins
                k == FirstNamed(C, entry[p].Shortname)
            IN  /\ Stored.ok
                /\ Len(W) = Len(C)
                /\ W[k].Shortname = C[k].Shortname
                /\ W[k].Releases = C[k].Releases \o <<entry[p].Releases[1]>>
                /\ \A i \in 1..Len(C) : i # k => W[i] = C[i]

C3_Witness ==
    \E p \in Procs :
        /\ Written(p) /\ NameIn(loaded[p], entry[p].Shortname)
        /\ Len(loaded[p]) >= 2
        /\ LET k == FirstNamed(loaded[p], entry[p].Shortname)
           IN \E i \in 1..Len(loaded[p][k].Releases) :
                loaded[p][k].Releases[i] = entry[p].Releases[1]

\* C4: extractFromTarball hands off to AddEntryToPluginManifest only when one
\* manifest.toml was decoded, it holds one plugin with one release, and the
\* binary payload is not empty; a run that ends with MalformedArchive has
\* changed nothing.
WellFormed(p) ==
    /\ nfrag[p] = 1
    /\ Len(SliceOf(manifest[p])) = 1
    /\ Len(SliceOf(manifest[p])[1].Releases) = 1
    /\ pluginData[p] > 0
C4_HandOffOnlyIfWellFormed ==
    \A p \in Procs :
        /\ (op[p] = "extract" /\ pc[p] = "add_load") => WellFormed(p)
        /\ (op[p] = "extract" /\ Done(p) /\ Err(p) = "MalformedArchive") => Unchanged(p)

\* the errors that name an entry of an unsupported type and its type
NamesUnsupported ==
    {<<"UnsupportedEntryType", h.Name, h.Typeflag>> : h \in {LinkEntry, DeviceEntry}}

\* C5: a run on an archive that holds an entry of an unsupported type ends
\* with UnsupportedEntryType naming that entry and its type, and has changed
\* nothing (stated for the runs whose stream was read without an I/O error).
C5_UnsupportedAlwaysReported ==
    \A p \in Procs :
        (op[p] = "extract" /\ Done(p) /\ bad[p] # 0 /\ Err(p) # "ReadError") =>
            /\ result[p] \in NamesUnsupported
            /\ Unchanged(p)

\* C5, amended: such a run never hands off and changes nothing; it ends with
\* UnsupportedEntryType naming the first unsupported entry and its type,
\* unless the scan failed before it (tarReader.Next failed, or a manifest.toml
\* ahead of it did not parse) and that error is returned.
C5_UnsupportedNeverInstalled ==
    \A p \in Procs :
        (op[p] = "extract" /\ bad[p] # 0) =>
            /\ pc[p] \in {"scan", "done"}
            /\ Unchanged(p)
            /\ Done(p) =>
                \/ /\ result[p] \in NamesUnsupported
                   /\ pos[p] = bad[p]
                \/ /\ Err(p) \in {"ReadError", "ParseError"}
                   /\ pos[p] <= bad[p]

C5_Witness ==
    \E p \in Procs :
        /\ Done(p) /\ op[p] = "extract" /\ bad[p] = MaxEntries
        /\ Err(p) = "UnsupportedEntryType"
        /\ nfrag[p] = 1

\* C6: GetPluginList fetches only when plugins.toml is absent, once, then
\* reads once more; a present file is not fetched over; a failed fetch fails
\* the load with its error and leaves the file absent; after a successful
\* fetch the load returns the fetched document.
C6_BootstrapOnce ==
    \A p \in Procs :
        (op[p] = "lookup" /\ Done(p)) =>
            /\ load.fetches <= 1
            /\ load.fetches = 1 <=> load.absent
            /\ load.absent = (start[p].catalog = Absent)
            /\ ~load.absent => (load.reads = 1 /\ catalog = start[p].catalog)
            /\ (load.absent /\ load.fetchErr # "") =>
                    /\ load.err = load.fetchErr
                    /\ load.reads = 1
                    /\ catalog = Absent
            /\ (load.absent /\ load.fetchErr = "") =>
                    /\ load.reads = 2
                    /\ load.err = ""
                    /\ catalog = load.body
                    /\ Encode(load.list) = load.body

\* C6, amended: as C6, but a fetch that fails writing the file may leave a
\* truncated copy of the body, and after a successful fetch the file holds
\* the body and the load returns the document decoded from it or fails with
\* the read or parse error of the retried read.
C6_BootstrapOnceOrFail ==
    \A p \in Procs :
        (op[p] = "lookup" /\ Done(p)) =>
            /\ load.fetches <= 1
            /\ load.fetches = 1 <=> load.absent
            /\ load.absent = (start[p].catalog = Absent)
            /\ ~load.absent => (load.reads = 1 /\ catalog = start[p].catalog)
            /\ (load.absent /\ load.fetchErr # "") =>
                    /\ load.err = load.fetchErr
                    /\ load.reads = 1
                    /\ IF load.fetchErr = "IOError"
                       THEN catalog \in {Absent} \cup Truncations(load.body)
                       ELSE catalog = Absent
            /\ (load.absent /\ load.fetchErr = "") =>
                    /\ load.reads = 2
                    /\ catalog = load.body
                    /\ \/ load.err = "" /\ Encode(load.list) = load.body
                       \/ load.err \in {"ReadError", "ParseError"} /\ load.list = <<>>

C6_Witness ==
    \E p \in Procs :
        /\ op[p] = "lookup" /\ Done(p)
        /\ load.absent /\ load.fetches = 1 /\ load.reads = 2
        /\ load.err = "" /\ load.list # <<>> /\ load.found

\* C7: no two extensions of the stored catalog share a name, so the first
\* match LookUpPlugin returns is the only one.
C7_UniqueNames ==
    (catalog # Absent /\ Stored.ok) =>
        LET ps == Stored.Plugins IN
        /\ \A i, j \in 1..Len(ps) : ps[i].Shortname = ps[j].Shortname => i = j
        /\ \A n \in Names : \A j \in 1..Len(ps) :
                ps[j].Shortname = n => FindPlugin(ps, n) = j

C7_Witness ==
    /\ catalog # Absent /\ Stored.ok
    /\ Len(Stored.Plugins) >= 2
    /\ \E i \in 1..Len(Stored.Plugins) : Len(Stored.Plugins[i].Releases) >= 2

\* C8: the installed index never holds a name twice, holds the name of every
\* entry whose AddEntryToPluginManifest call returned nil, and is left as it
\* was by a call whose name it already held.
C8_IndexSetSemantics ==
    /\ \A i, j \in 1..Len(index) : index[i] = index[j] => i = j
    /\ \A p \in Procs :
        (op[p] = "reconcile" /\ Done(p) /\ Err(p) = "ok") =>
            /\ InIndex(entry[p].Shortname)
            /\ (\E i \in 1..Len(start[p].index) :
                    start[p].index[i] = entry[p].Shortname) => index = start[p].index

\* C9: when the two reconciliations did not overlap and both returned nil,
\* nothing either of them wrote is lost: plugins.toml grew by the lines each
\* added and holds both names, the index grew by the names each persisted.
\* (The witness is the interleaved run in which both are lost.)
Lines(cat) == IF cat = Absent THEN 0 ELSE Len(cat)
BothReturnedNil == \A p \in Procs : Done(p) /\ Err(p) = "ok"
C9_SequentialRunsLoseNothing ==
    (BothReturnedNil /\ ~overlap) =>
        /\ Lines(catalog) = Lines(catalog0) + delta[1].cat + delta[2].cat
        /\ Stored.ok
        /\ \A p \in Procs : NameIn(Stored.Plugins, entry[p].Shortname)
        /\ Len(index) = delta[1].idx + delta[2].idx

C9_LostUpdate ==
    /\ BothReturnedNil /\ overlap
    /\ Lines(catalog) < Lines(catalog0) + delta[1].cat + delta[2].cat
    /\ \E p \in Procs : ~NameIn(Stored.Plugins, entry[p].Shortname)
    /\ Len(index) < delta[1].idx + delta[2].idx
    /\ \E p \in Procs : delta[p].idx = 1 /\ ~InIndex(entry[p].Shortname)

\* C10: AddEntryToPluginManifest returns nil only if plugins.toml holds the
\* whole list and the installed index holds the list it built;
\* extractFromTarball returns nil only if every read of the stream succeeded.
C10_NilMeansPersisted ==
    \A p \in Procs :
        /\ (op[p] = "reconcile" /\ Done(p) /\ Err(p) = "ok") =>
                (Recorded(p) /\ index = installedList[p])
        /\ (op[p] = "extract" /\ Done(p) /\ Err(p) = "ok") => ~trErr[p]

====
